---------------------------- MODULE Spec2Model ----------------------------
(***************************************************************************)
(* The ingestion pipeline (data/ingest_mtg.py) and the vectorization       *)
(* worker (data/vector_worker.py) over one Catalog Store (the tracks table *)
(* of backend/models.py), one Blob Store bucket and one local output       *)
(* directory.                                                              *)
(*                                                                         *)
(* Environment: network requests, store transfers, database statements,    *)
(* commits and rollbacks may raise; operations on the local file system    *)
(* (open for writing, exists, unlink, mkdir) do not.                       *)
(*                                                                         *)
(* Text is a sequence of tokens; an optional value is a sequence of length *)
(* 0 (None) or 1 (the value).                                              *)
(***************************************************************************)
EXTENDS Integers, Sequences, FiniteSets, TLC

\* ------------------------------------------------------------- bounds
MaxRows == 2
MaxPasses == 2
MaxLimit == 1
MaxMissing == 1
MaxRetries == 3
NumChunks == 2
MaxKeyLen == 5

\* ---------------------------------------------------- program constants
DefaultRetries == 3
BackoffUnit == 2
EmbeddingDim == 512

\* ------------------------------------------------------------ values
None == <<>>
Some(x) == <<x>>

EnvVars ==
  {"S3_ACCESS_KEY_ID", "S3_SECRET_ACCESS_KEY", "S3_ENDPOINT_URL",
   "S3_BUCKET_NAME", "DATABASE_URL"}

\* os.getenv(k) as text: the configured value, or None.
Getenv(e, k) == IF k \in e THEN Some(<<k>>) ELSE None

\* str(x) inside an f-string: None prints as "None".
FStr(opt) == IF opt = None THEN <<"None">> ELSE opt[1]

Ids == {"t1", "t2"}

\* The rows a dataset is made of: an identifier and a PATH column; an empty
\* PATH stands for a row with no source location at all.
RowKinds ==
  { [TRACK_ID |-> "t1", PATH |-> "p1"],
    [TRACK_ID |-> "t2", PATH |-> "p2"],
    [TRACK_ID |-> "t2", PATH |-> ""] }

RECURSIVE SeqsUpTo(_, _)
SeqsUpTo(S, n) ==
  IF n = 0 THEN {<<>>}
  ELSE LET shorter == SeqsUpTo(S, n - 1)
       IN  shorter \cup {Append(s, x) : s \in {t \in shorter : Len(t) = n - 1}, x \in S}

\* The datasets read_csv can hand over; the empty one also stands for a TSV
\* that cannot be read.
Datasets == SeqsUpTo(RowKinds, MaxRows)

\* The remote resource behind a URL, as the chunks iter_content yields.
Resource(u) == [k \in 1..NumChunks |-> <<u, k>>]

CdnBase == "https://cdn.freesound.org/mtg-jamendo/raw_30s/audio/"

AudioUrl(row) ==
  IF row.PATH # "" THEN <<CdnBase, row.PATH>> ELSE <<>>

Filename(track_id) == <<track_id, ".mp3">>

S3Key(track_id) == <<"tracks", "/">> \o Filename(track_id)

Keys == {S3Key(i) : i \in Ids}

\* ------------------------------------------------------------- state
VARIABLES
  env,              \* the environment variables that are set
  dataset,          \* the rows of the TSV
  tracks,           \* the tracks table, in insertion order
  bucket,           \* the Blob Store bucket: key -> optional content
  files,            \* output_dir: track_id -> optional content of <id>.mp3
  passes,           \* calls of process_dataset so far
  ipc,              \* where process_dataset is
  limit,            \* its limit argument (0: none)
  index,            \* the row of the loop
  processed_count,
  final_url,        \* optional reference returned by upload_to_s3
  url,              \* download_file's url
  local_path,       \* download_file's local_path (the track_id of <id>.mp3)
  retries,          \* download_file's retries
  attempt,          \* download_file's loop variable
  success,          \* download_file's return value
  dlLog,            \* the requests and sleeps of the running download_file call
  partial,          \* whether a raising try of that call left a partly written file
  ev,               \* what happened to the row of the loop, this pass
  visited,          \* the rows the loop reached, this pass
  failed,           \* the rows a download, upload or insert failed for, this pass
  inserted,         \* per pass, the identifiers it inserted
  clean,            \* per pass, whether no step of it has failed so far
  wpc,              \* per worker: where process_queue is
  wtrack,           \* per worker: the row of tracks its poll returned (0: none)
  wtmp,             \* per worker: whether this iteration's temporary file exists
  wemb,             \* per worker: optional embedding returned by generate_embedding
  wlast,            \* per worker: how its last iteration ended, and the sleep taken
  rpc,              \* a lone upload_to_s3 / get_presigned_url call: where it is
  s3_key,           \* upload_to_s3's s3_key
  transfers,        \* the upload_file calls that upload_to_s3 call has issued
  public_url,       \* its return value, and get_presigned_url's public_url
  signed_key        \* optional key get_presigned_url handed to the signing call

cfgVars == <<env, dataset>>
storeVars == <<tracks, bucket>>
loopVars == <<passes, limit, index, processed_count, final_url>>
dlVars == <<url, local_path, retries, attempt, success, dlLog, partial>>
histVars == <<ev, visited, failed, inserted, clean>>
workerVars == <<wpc, wtrack, wtmp, wemb, wlast>>
refVars == <<rpc, s3_key, transfers, public_url, signed_key>>
vars == <<cfgVars, storeVars, files, ipc, loopVars, dlVars, histVars, workerVars, refVars>>

\* ------------------------------------------------ configuration reads
S3_ENDPOINT_URL == Getenv(env, "S3_ENDPOINT_URL")
S3_BUCKET_NAME == Getenv(env, "S3_BUCKET_NAME")
DATABASE_URL == Getenv(env, "DATABASE_URL")

\* get_db_session(): None without DATABASE_URL, else a session.
get_db_session == DATABASE_URL # None

\* all([S3_ACCESS_KEY_ID, S3_SECRET_ACCESS_KEY, S3_BUCKET_NAME])
CredsPresent_needs_db ==
  {"S3_ACCESS_KEY_ID", "S3_SECRET_ACCESS_KEY", "S3_BUCKET_NAME", "DATABASE_URL"}
    \subseteq env
CredsPresent ==
  {"S3_ACCESS_KEY_ID", "S3_SECRET_ACCESS_KEY", "S3_BUCKET_NAME"} \subseteq env

\* ------------------------------------------------------ the catalog
\* Track(id=..., audio_url=...): embedding is left unset.
Track(track_id, audio_url) ==
  [id |-> track_id, audio_url |-> audio_url, embedding |-> None]

\* query(Track).filter_by(id=track_id).first()
Existing(table, track_id) ==
  LET hits == {i \in 1..Len(table) : table[i].id = track_id}
  IN  IF hits = {} THEN None
      ELSE Some(table[CHOOSE i \in hits : \A j \in hits : i <= j])

\* id is the primary key: a second row with the same id is rejected.
PrimaryKeyFree_unchecked(table, track_id) == TRUE
PrimaryKeyFree(table, track_id) == Existing(table, track_id) = None

\* Vector(512): the column takes a vector of that dimension only.
VectorFits_any(e) == TRUE
VectorFits(e) == Len(e) = EmbeddingDim

\* ------------------------------------------------------ download_file
\* time.sleep(2 * (attempt + 1))
Backoff_zero_based(a) == BackoffUnit * a
Backoff(a) == BackoffUnit * (a + 1)

\* open(local_path, 'wb') and the chunks written before the file is closed
WriteBinary_append(old, chunks) == IF old = None THEN Some(chunks) ELSE Some(old[1] \o chunks)
WriteBinary(old, chunks) == Some(chunks)

Row == dataset[index]
track_id == Row.TRACK_ID

Note(e) == ev' = ev \cup e
Unclean == clean' = [clean EXCEPT ![passes] = FALSE]

\* One try of download_file's loop: requests.get, raise_for_status, then the
\* chunks are streamed into the file opened 'wb'. The try returns True, or
\* raises before the file is opened, or raises after j chunks were written;
\* a raising try is followed by the sleep. dlLog records each request and
\* each sleep with its seconds.
DownloadAttempt ==
  /\ ipc = "download"
  /\ attempt < retries
  /\ \/ /\ files' = [files EXCEPT ![local_path] = WriteBinary(@, Resource(url))]
        /\ success' = TRUE
        /\ dlLog' = Append(dlLog, [op |-> "get", n |-> 0])
        /\ ipc' = "dl_return"
        /\ UNCHANGED <<attempt, partial>>
     \/ /\ \/ UNCHANGED <<files, partial>>
           \/ /\ \E j \in 0..(NumChunks - 1) :
                   files' = [files EXCEPT
                               ![local_path] = WriteBinary(@, SubSeq(Resource(url), 1, j))]
              /\ partial' = TRUE
        /\ dlLog' = dlLog \o << [op |-> "get", n |-> 0],
                                [op |-> "sleep", n |-> Backoff(attempt)] >>
        /\ attempt' = attempt + 1
        /\ UNCHANGED <<success, ipc>>
  /\ UNCHANGED <<refVars, workerVars, cfgVars, storeVars, loopVars, url, local_path, retries, histVars>>

\* range(retries) is used up: return False.
DownloadExhausted ==
  /\ ipc = "download"
  /\ attempt >= retries
  /\ success' = FALSE
  /\ ipc' = "dl_return"
  /\ UNCHANGED <<refVars, workerVars, cfgVars, storeVars, files, loopVars, url, local_path, retries,
                 attempt, dlLog, partial, histVars>>

\* ---------------------------------------------------- process_dataset
\* The call: read_csv (a TSV that yields nothing returns at once), mkdir, the
\* clients.
ProcessDatasetCall ==
  /\ ipc \in {"idle", "returned", "raised"}
  /\ passes < MaxPasses
  /\ passes' = passes + 1
  /\ inserted' = Append(inserted, {})
  /\ clean' = Append(clean, TRUE)
  /\ visited' = {}
  /\ failed' = {}
  /\ ev' = {}
  /\ index' = 0
  /\ processed_count' = 0
  /\ final_url' = None
  /\ \E l \in 0..MaxLimit : limit' = l
  /\ ipc' = IF dataset = <<>> THEN "returned" ELSE "loop"
  /\ UNCHANGED <<refVars, workerVars, cfgVars, storeVars, files, dlVars>>

\* The loop head: the rows are used up, or the limit breaks the loop, or the
\* next row is taken; a row with no identifier or no URL is passed over.
LoopHead ==
  /\ ipc = "loop"
  /\ IF index = Len(dataset) \/ (limit # 0 /\ processed_count >= limit)
     THEN /\ ipc' = "returned"
          /\ UNCHANGED <<index, ev, visited>>
     ELSE /\ index' = index + 1
          /\ visited' = visited \cup {index + 1}
          /\ ev' = {}
          /\ ipc' = IF dataset[index + 1].TRACK_ID = "" \/ AudioUrl(dataset[index + 1]) = <<>>
                    THEN "loop" ELSE "check"
  /\ UNCHANGED <<refVars, workerVars, cfgVars, storeVars, files, passes, limit, processed_count,
                 final_url, dlVars, failed, inserted, clean>>

\* What the loop does with the answer of the existence query.
SkipsExisting_never(existing) == FALSE
SkipsExisting(existing) == existing # None

\* 0. Check DB first: without a session the check is left out; the query
\* answers, or raises and the session is rolled back (which may raise too).
CheckDB ==
  /\ ipc = "check"
  /\ LET had == IF Existing(tracks, track_id) # None THEN {"had_entry"} ELSE {}
     IN  IF ~get_db_session
         THEN /\ ipc' = "exists"
              /\ Note(had)
              /\ UNCHANGED clean
         ELSE \/ /\ SkipsExisting(Existing(tracks, track_id))
                 /\ ipc' = "loop"
                 /\ Note(had \cup {"existing"})
                 /\ UNCHANGED clean
              \/ /\ ~SkipsExisting(Existing(tracks, track_id))
                 /\ ipc' = "exists"
                 /\ Note(had)
                 /\ UNCHANGED clean
              \/ /\ ipc' = "exists"
                 /\ Note(had \cup {"check_error"})
                 /\ Unclean
              \/ /\ ipc' = "raised"
                 /\ Note(had \cup {"check_error", "rollback_error"})
                 /\ Unclean
  /\ UNCHANGED <<refVars, workerVars, cfgVars, storeVars, files, loopVars, dlVars, visited, failed, inserted>>

\* 1. Download, unless <id>.mp3 is already in the output directory.
LocalFileCheck ==
  /\ ipc = "exists"
  /\ IF files[track_id] # None
     THEN /\ ipc' = "upload"
          /\ Note({"had_file"})
          /\ UNCHANGED dlVars
     ELSE /\ ipc' = "download"
          /\ Note({"download"})
          /\ url' = AudioUrl(Row)
          /\ local_path' = track_id
          /\ retries' = DefaultRetries
          /\ attempt' = 0
          /\ dlLog' = <<>>
          /\ partial' = FALSE
          /\ UNCHANGED success
  /\ UNCHANGED <<refVars, workerVars, cfgVars, storeVars, files, loopVars, visited, failed, inserted,
                 clean>>

\* download_file has returned: a failure passes the row over.
AfterDownload ==
  /\ ipc = "dl_return"
  /\ IF success
     THEN /\ ipc' = "upload"
          /\ Note({"downloaded"})
          /\ UNCHANGED <<failed, clean>>
     ELSE /\ ipc' = "loop"
          /\ Note({"download_failed"})
          /\ failed' = failed \cup {index}
          /\ Unclean
  /\ attempt' = 0
  /\ dlLog' = <<>>
  /\ partial' = FALSE
  /\ success' = FALSE
  /\ UNCHANGED <<refVars, workerVars, cfgVars, storeVars, files, loopVars, url, local_path, retries,
                 visited, inserted>>

\* upload_to_s3's reference: endpoint/bucket/key
Reference_without_bucket(endpoint, bucket_name, key) == FStr(endpoint) \o <<"/">> \o key
Reference(endpoint, bucket_name, key) ==
  FStr(endpoint) \o <<"/">> \o FStr(bucket_name) \o <<"/">> \o key

\* s3_client.upload_file(str(local_path), S3_BUCKET_NAME, s3_key), and whether
\* it raised.
Transfer(path, key, raised) ==
  [Filename |-> path, Bucket |-> S3_BUCKET_NAME, Key |-> key, Raised |-> raised]

\* Where the loop goes once upload_to_s3 has returned.
AfterUpload_insert_always(ref, session) == IF session THEN "insert" ELSE "cleanup"
AfterUpload_keep_on_failure(ref, session) ==
  IF ref # None /\ session THEN "insert" ELSE IF ref # None THEN "cleanup" ELSE "count"
AfterUpload(ref, session) == IF ref # None /\ session THEN "insert" ELSE "cleanup"

\* 2. Upload to S3, when the credentials are there: upload_file copies the
\* local file under the key and the reference is returned, or the store
\* raises and None is returned. Without credentials the file is kept.
Upload ==
  /\ ipc = "upload"
  /\ IF CredsPresent
     THEN \/ /\ bucket' = [bucket EXCEPT ![S3Key(track_id)] = files[track_id]]
             /\ final_url' = Some(Reference(S3_ENDPOINT_URL, S3_BUCKET_NAME, S3Key(track_id)))
             /\ s3_key' = S3Key(track_id)
             /\ transfers' = <<Transfer(Filename(track_id), S3Key(track_id), FALSE)>>
             /\ Note({"upload", "uploaded"})
             /\ ipc' = AfterUpload(final_url', get_db_session)
             /\ UNCHANGED <<failed, clean>>
          \/ /\ final_url' = None
             /\ s3_key' = S3Key(track_id)
             /\ transfers' = <<Transfer(Filename(track_id), S3Key(track_id), TRUE)>>
             /\ Note({"upload", "upload_failed"})
             /\ failed' = failed \cup {index}
             /\ Unclean
             /\ ipc' = AfterUpload(final_url', get_db_session)
             /\ UNCHANGED bucket
     ELSE /\ Note({"kept"})
          /\ ipc' = "count"
          /\ UNCHANGED <<bucket, final_url, failed, clean, s3_key, transfers>>
  /\ UNCHANGED <<rpc, public_url, signed_key, workerVars, cfgVars, tracks, files, passes, limit,
                 index, processed_count, dlVars, visited, inserted>>

\* 3. Insert to DB: add and commit; the commit raises on a taken primary
\* key or on a database error, and the session is rolled back.
Insert ==
  /\ ipc = "insert"
  /\ \/ /\ PrimaryKeyFree(tracks, track_id)
        /\ tracks' = Append(tracks, Track(track_id, final_url))
        /\ inserted' = [inserted EXCEPT ![passes] = @ \cup {track_id}]
        /\ Note({"insert", "inserted"})
        /\ ipc' = "cleanup"
        /\ UNCHANGED <<failed, clean>>
     \/ /\ Note({"insert", "insert_failed"})
        /\ failed' = failed \cup {index}
        /\ Unclean
        /\ ipc' = "cleanup"
        /\ UNCHANGED <<tracks, inserted>>
     \/ /\ Note({"insert", "insert_failed", "rollback_error"})
        /\ failed' = failed \cup {index}
        /\ Unclean
        /\ ipc' = "raised"
        /\ UNCHANGED <<tracks, inserted>>
  /\ UNCHANGED <<refVars, workerVars, cfgVars, bucket, files, loopVars, dlVars, visited>>

\* 4. Cleanup: the local file is unlinked.
Cleanup ==
  /\ ipc = "cleanup"
  /\ files' = [files EXCEPT ![track_id] = None]
  /\ Note({"unlink"})
  /\ ipc' = "count"
  /\ UNCHANGED <<refVars, workerVars, cfgVars, storeVars, loopVars, dlVars, visited, failed, inserted,
                 clean>>

\* processed_count += 1, at the end of the loop body.
Count ==
  /\ ipc = "count"
  /\ processed_count' = processed_count + 1
  /\ Note({"counted"})
  /\ ipc' = "loop"
  /\ UNCHANGED <<refVars, workerVars, cfgVars, storeVars, files, passes, limit, index, final_url, dlVars,
                 visited, failed, inserted, clean>>

\* ------------------------------------------------------- process_queue
Workers == {"w1", "w2"}

\* The lists generate_embedding can return: the model's output row, whatever
\* its length.
Vector(n) == [k \in 1..n |-> 0]
OutputDims == {0, EmbeddingDim, EmbeddingDim + 1}

\* filter(Track.embedding == None)
Pending_all(table) == {i \in 1..Len(table) : TRUE}
Pending_unclaimed(table) ==
  {i \in 1..Len(table) :
     /\ table[i].embedding = None
     /\ \A w \in DOMAIN wpc : ~(wpc[w] \in {"download", "embed", "commit"} /\ wtrack[w] = i)}
Pending(table) == {i \in 1..Len(table) : table[i].embedding = None}

Ended(w, how, slept) == wlast' = [wlast EXCEPT ![w] = [outcome |-> how, slept |-> slept]]

\* if not session: sys.exit(1)
StartsLoop_always(session) == TRUE
StartsLoop(session) == session

\* load_model, then get_db_session: a model that cannot be loaded ends the
\* process, and so does a missing session.
WorkerStart(w) ==
  /\ wpc[w] = "start"
  /\ \/ /\ wpc' = [wpc EXCEPT ![w] = "exited"]
        /\ Ended(w, "model_load_failed", 0)
     \/ IF StartsLoop(get_db_session)
        THEN /\ wpc' = [wpc EXCEPT ![w] = "poll"]
             /\ UNCHANGED wlast
        ELSE /\ wpc' = [wpc EXCEPT ![w] = "exited"]
             /\ Ended(w, "no_session", 0)
  /\ UNCHANGED <<refVars, cfgVars, storeVars, files, ipc, loopVars, dlVars, histVars,
                 wtrack, wtmp, wemb>>

\* except Exception at the loop boundary: rollback, then sleep(5); a
\* rollback that raises leaves the loop.
LoopBoundary(w) ==
  \/ /\ wpc' = [wpc EXCEPT ![w] = "poll"]
     /\ Ended(w, "error", 5)
  \/ /\ wpc' = [wpc EXCEPT ![w] = "crashed"]
     /\ Ended(w, "crashed", 0)

\* The poll: one row whose embedding is null, in no stated order; with none,
\* sleep(10) and expire_all. The query may raise.
Poll(w) ==
  /\ wpc[w] = "poll"
  /\ \/ /\ \E i \in Pending(tracks) : wtrack' = [wtrack EXCEPT ![w] = i]
        /\ wpc' = [wpc EXCEPT ![w] = "download"]
        /\ wtmp' = [wtmp EXCEPT ![w] = FALSE]
        /\ Ended(w, "running", 0)
     \/ /\ Pending(tracks) = {}
        /\ wtrack' = [wtrack EXCEPT ![w] = 0]
        /\ wtmp' = [wtmp EXCEPT ![w] = FALSE]
        /\ wpc' = [wpc EXCEPT ![w] = "poll"]
        /\ Ended(w, "idle", 10)
     \/ /\ wtrack' = [wtrack EXCEPT ![w] = 0]
        /\ wtmp' = [wtmp EXCEPT ![w] = FALSE]
        /\ LoopBoundary(w)
  /\ UNCHANGED <<refVars, cfgVars, storeVars, files, ipc, loopVars, dlVars, histVars, wemb>>

\* get_presigned_url and download_audio: the temporary file holds the
\* response and its name is returned; or the request raises; or the stream
\* raises while the file is written, the file stays and None is returned. On
\* None: sleep(5) and continue.
Download(w) ==
  /\ wpc[w] = "download"
  /\ \/ /\ wtmp' = [wtmp EXCEPT ![w] = TRUE]
        /\ wpc' = [wpc EXCEPT ![w] = "embed"]
        /\ UNCHANGED wlast
     \/ /\ wpc' = [wpc EXCEPT ![w] = "poll"]
        /\ Ended(w, "download_failed", 5)
        /\ UNCHANGED wtmp
     \/ /\ wtmp' = [wtmp EXCEPT ![w] = TRUE]
        /\ wpc' = [wpc EXCEPT ![w] = "poll"]
        /\ Ended(w, "download_failed", 5)
  /\ UNCHANGED <<refVars, cfgVars, storeVars, files, ipc, loopVars, dlVars, histVars, wtrack, wemb>>

\* if embedding:
Truthy(embedding) == embedding # None /\ Len(embedding[1]) > 0

\* generate_embedding, then the temporary file is removed; a vector goes on
\* to the commit, None or an empty list is logged.
Embed(w) ==
  /\ wpc[w] = "embed"
  /\ \E e \in {None} \cup {Some(Vector(n)) : n \in OutputDims} :
       IF Truthy(e)
       THEN /\ wemb' = [wemb EXCEPT ![w] = e]
            /\ wpc' = [wpc EXCEPT ![w] = "commit"]
            /\ UNCHANGED wlast
       ELSE /\ wpc' = [wpc EXCEPT ![w] = "poll"]
            /\ Ended(w, "embed_failed", 0)
            /\ UNCHANGED wemb
  /\ wtmp' = [wtmp EXCEPT ![w] = FALSE]
  /\ UNCHANGED <<refVars, cfgVars, storeVars, files, ipc, loopVars, dlVars, histVars, wtrack>>

\* track.embedding = embedding; session.commit(): the row is updated, or the
\* commit raises and the session is rolled back; a rollback that raises is
\* caught at the loop boundary.
Commit(w) ==
  /\ wpc[w] = "commit"
  /\ \/ /\ VectorFits(wemb[w][1])
        /\ tracks' = [tracks EXCEPT ![wtrack[w]].embedding = wemb[w]]
        /\ wpc' = [wpc EXCEPT ![w] = "poll"]
        /\ Ended(w, "persisted", 0)
     \/ /\ wpc' = [wpc EXCEPT ![w] = "poll"]
        /\ Ended(w, "commit_failed", 0)
        /\ UNCHANGED tracks
     \/ /\ LoopBoundary(w)
        /\ UNCHANGED tracks
  /\ wemb' = [wemb EXCEPT ![w] = None]
  /\ UNCHANGED <<refVars, cfgVars, bucket, files, ipc, loopVars, dlVars, histVars, wtrack, wtmp>>

\* ------------------------------------- upload_to_s3, get_presigned_url
\* The tokens a key is written with; the value of a configuration variable
\* that is set is one token, named after the variable, so the last of these is
\* a path segment that reads like the bucket's name.
KeyTokens == {"tracks", "/", "a", "S3_BUCKET_NAME"}

\* The keys a lone upload_to_s3 call is handed.
RefKeys == SeqsUpTo(KeyTokens, MaxKeyLen) \ {<<>>}

\* Where pat occurs in text.
Occurrences(text, pat) ==
  {i \in 1..(Len(text) - Len(pat) + 1) : SubSeq(text, i, i + Len(pat) - 1) = pat}

\* pat in text
Contains(text, pat) == Occurrences(text, pat) # {}

\* text.split(pat)[-1]: the occurrences are taken from the left, without
\* overlap, and what follows the last of them is returned.
RECURSIVE SplitLast(_, _)
SplitLast(text, pat) ==
  IF ~Contains(text, pat) THEN text
  ELSE LET p == CHOOSE i \in Occurrences(text, pat) : \A j \in Occurrences(text, pat) : i <= j
       IN  SplitLast(SubSeq(text, p + Len(pat), Len(text)), pat)

\* The key get_presigned_url parses out of a reference: what follows
\* /bucket/, else tracks/ and what follows tracks/, else nothing (None).
ParsedKey(reference, bucket_name) ==
  LET marker == <<"/">> \o FStr(bucket_name) \o <<"/">>
  IN  IF Contains(reference, marker) THEN Some(SplitLast(reference, marker))
      ELSE IF Contains(reference, <<"tracks", "/">>)
           THEN Some(<<"tracks", "/">> \o SplitLast(reference, <<"tracks", "/">>))
           ELSE None

\* The client transfers only with its credentials and a bucket to name;
\* otherwise upload_file raises (NoCredentialsError, or the bucket is refused).
ClientCanTransfer ==
  {"S3_ACCESS_KEY_ID", "S3_SECRET_ACCESS_KEY", "S3_BUCKET_NAME"} \subseteq env

\* upload_to_s3(s3_client, local_path, s3_key), called on its own: one
\* upload_file call; the reference is returned, or the call raises and None is
\* returned.
UploadToS3 ==
  /\ rpc = "upload_to_s3"
  /\ \/ /\ ClientCanTransfer
        /\ transfers' = Append(transfers, Transfer(Filename(local_path), s3_key, FALSE))
        /\ bucket' = (s3_key :> files[local_path]) @@ bucket
        /\ public_url' = Some(Reference(S3_ENDPOINT_URL, S3_BUCKET_NAME, s3_key))
     \/ /\ transfers' = Append(transfers, Transfer(Filename(local_path), s3_key, TRUE))
        /\ public_url' = None
        /\ UNCHANGED bucket
  /\ rpc' = "uploaded"
  /\ UNCHANGED <<cfgVars, tracks, files, ipc, loopVars, dlVars, histVars, workerVars,
                 s3_key, signed_key>>

\* get_presigned_url(s3_client, public_url), called on what upload_to_s3
\* returned: nothing for no reference; the reference itself when no key can be
\* parsed out of it or when the signing call raises; else the signed URL.
GetPresignedUrl ==
  /\ rpc = "uploaded"
  /\ IF public_url = None \/ public_url[1] = <<>>
     THEN /\ rpc' = "no_url"
          /\ UNCHANGED signed_key
     ELSE LET key == ParsedKey(public_url[1], S3_BUCKET_NAME)
          IN  IF key = None
              THEN /\ rpc' = "raw"
                   /\ UNCHANGED signed_key
              ELSE /\ signed_key' = key
                   /\ \/ rpc' = "presigned"
                      \/ rpc' = "raw"
  /\ UNCHANGED <<cfgVars, storeVars, files, ipc, loopVars, dlVars, histVars, workerVars,
                 s3_key, transfers, public_url>>

\* ------------------------------------------------------ specification
Envs == {e \in SUBSET EnvVars : Cardinality(EnvVars \ e) <= MaxMissing}

InitStores ==
  /\ tracks = <<>>
  /\ bucket = [k \in Keys |-> None]
  /\ files = [i \in Ids |-> None]

InitIngestion ==
  /\ passes = 0
  /\ ipc = "idle"
  /\ limit = 0
  /\ index = 0
  /\ processed_count = 0
  /\ final_url = None
  /\ url = <<>>
  /\ local_path = "t1"
  /\ retries = DefaultRetries
  /\ attempt = 0
  /\ success = FALSE
  /\ dlLog = <<>>
  /\ partial = FALSE
  /\ ev = {}
  /\ visited = {}
  /\ failed = {}
  /\ inserted = <<>>
  /\ clean = <<>>

InitWorkers(running) ==
  /\ wpc = [w \in Workers |-> IF w \in running THEN "start" ELSE "off"]
  /\ wtrack = [w \in Workers |-> 0]
  /\ wtmp = [w \in Workers |-> FALSE]
  /\ wemb = [w \in Workers |-> None]
  /\ wlast = [w \in Workers |-> [outcome |-> "none", slept |-> 0]]

\* No lone upload_to_s3 call is under way.
InitReference ==
  /\ rpc = "off"
  /\ s3_key = <<>>
  /\ transfers = <<>>
  /\ public_url = None
  /\ signed_key = None

RowSteps ==
  \/ LoopHead
  \/ CheckDB
  \/ LocalFileCheck
  \/ DownloadAttempt
  \/ DownloadExhausted
  \/ AfterDownload
  \/ Upload
  \/ Insert
  \/ Cleanup
  \/ Count

NextIngestion == ProcessDatasetCall \/ RowSteps

NextWorker ==
  \/ \E w \in Workers : WorkerStart(w)
  \/ \E w \in Workers : Poll(w)
  \/ \E w \in Workers : Download(w)
  \/ \E w \in Workers : Embed(w)
  \/ \E w \in Workers : Commit(w)

\* The whole system: the ingestion script run once over a dataset while one
\* worker runs, against empty stores.
Init ==
  /\ env \in Envs
  /\ dataset \in Datasets
  /\ InitStores
  /\ InitIngestion
  /\ InitWorkers({"w1"})
  /\ InitReference

FirstCall == passes = 0 /\ ProcessDatasetCall

Next == FirstCall \/ RowSteps \/ NextWorker

Spec == Init /\ [][Next]_vars

\* The ingestion script alone, run up to MaxPasses times over one dataset: no
\* worker is running.
InitIngest ==
  /\ env \in Envs
  /\ dataset \in Datasets
  /\ InitStores
  /\ InitIngestion
  /\ InitWorkers({})
  /\ InitReference

SpecIngest == InitIngest /\ [][NextIngestion]_vars

\* download_file alone, called with any retries on any URL and path, the
\* output directory holding whatever earlier calls left.
Urls == {AudioUrl(r) : r \in {k \in RowKinds : k.PATH # ""}}
Leftovers == {None} \cup {Some(SubSeq(Resource(u), 1, j)) : u \in Urls, j \in 0..NumChunks}

InitDownload ==
  /\ env = EnvVars
  /\ dataset \in {d \in Datasets : Len(d) = 1 /\ AudioUrl(d[1]) # <<>>}
  /\ tracks = <<>>
  /\ bucket = [k \in Keys |-> None]
  /\ files \in [Ids -> Leftovers]
  /\ InitWorkers({})
  /\ InitReference
  /\ passes = 0
  /\ ipc = "download"
  /\ limit = 0
  /\ index = 1
  /\ processed_count = 0
  /\ final_url = None
  /\ url = AudioUrl(dataset[1])
  /\ local_path = dataset[1].TRACK_ID
  /\ retries \in 0..MaxRetries
  /\ attempt = 0
  /\ success = FALSE
  /\ dlLog = <<>>
  /\ partial = FALSE
  /\ ev = {}
  /\ visited = {}
  /\ failed = {}
  /\ inserted = <<>>
  /\ clean = <<>>

NextDownload == DownloadAttempt \/ DownloadExhausted

SpecDownload == InitDownload /\ [][NextDownload]_vars

\* The worker alone, started on a catalog of pending entries whose files are
\* in the store; it takes a step whenever it can.
PendingTable(ids) ==
  [k \in 1..Len(ids) |->
     Track(ids[k], Some(Reference(S3_ENDPOINT_URL, S3_BUCKET_NAME, S3Key(ids[k]))))]

InitLive ==
  /\ env \in Envs
  /\ dataset = <<>>
  /\ \E ids \in SeqsUpTo(Ids, MaxRows) :
       /\ Len(ids) > 0
       /\ \A j, k \in 1..Len(ids) : ids[j] = ids[k] => j = k
       /\ tracks = PendingTable(ids)
  /\ bucket = [k \in Keys |-> Some(Resource(k))]
  /\ files = [i \in Ids |-> None]
  /\ InitIngestion
  /\ InitWorkers({"w1"})
  /\ InitReference

SpecLive == InitLive /\ [][NextWorker]_vars /\ WF_vars(NextWorker)

\* Two workers started on the same catalog of pending entries.
InitTwoWorkers ==
  /\ env \in Envs
  /\ dataset = <<>>
  /\ \E ids \in SeqsUpTo(Ids, MaxRows) :
       /\ Len(ids) > 0
       /\ \A j, k \in 1..Len(ids) : ids[j] = ids[k] => j = k
       /\ tracks = PendingTable(ids)
  /\ bucket = [k \in Keys |-> Some(Resource(k))]
  /\ files = [i \in Ids |-> None]
  /\ InitIngestion
  /\ InitWorkers(Workers)
  /\ InitReference

SpecTwoWorkers == InitTwoWorkers /\ [][NextWorker]_vars

\* upload_to_s3 alone, called with any key on a file of the output directory,
\* and get_presigned_url called on what it returned, under one configuration.
InitReferenceCall ==
  /\ env \in Envs
  /\ dataset = <<>>
  /\ tracks = <<>>
  /\ bucket = [k \in Keys |-> None]
  /\ files = [i \in Ids |-> Some(Resource(<<CdnBase, i>>))]
  /\ InitIngestion
  /\ InitWorkers({})
  /\ rpc = "upload_to_s3"
  /\ s3_key \in RefKeys
  /\ transfers = <<>>
  /\ public_url = None
  /\ signed_key = None

NextReference == UploadToS3 \/ GetPresignedUrl

SpecReference == InitReferenceCall /\ [][NextReference]_vars

\* ------------------------------------------------------------ claims
HasCreds == {"S3_ACCESS_KEY_ID", "S3_SECRET_ACCESS_KEY", "S3_BUCKET_NAME"} \subseteq env
HasDb == "DATABASE_URL" \in env

NoDuplicateIds ==
  \A i, k \in 1..Len(tracks) : tracks[i].id = tracks[k].id => i = k

\* The identifiers of the rows the loop does not pass over for want of an
\* identifier or a URL.
DatasetIds ==
  {dataset[i].TRACK_ID : i \in {k \in 1..Len(dataset) : AudioUrl(dataset[k]) # <<>>}}

InsertedBefore(p) == UNION {inserted[q] : q \in 1..(p - 1)}

\* C1, as stated: a pass over the same dataset that follows passes in which
\* nothing failed inserts nothing, and no identifier ever has more than one
\* row.
C1_SecondPassInsertsNothing ==
  /\ NoDuplicateIds
  /\ \A p \in 2..Len(inserted) :
       (\A q \in 1..(p - 1) : clean[q]) => inserted[p] = {}

\* C1, amended: no identifier ever has more than one row; a later pass
\* inserts no identifier an earlier pass inserted, and inserts nothing at all
\* when the first pass stored an entry for every row of the dataset.
C1_IdempotentIngestion ==
  /\ NoDuplicateIds
  /\ \A p \in 2..Len(inserted) :
       /\ inserted[p] \cap InsertedBefore(p) = {}
       /\ DatasetIds \subseteq inserted[1] => inserted[p] = {}

C1_Witness ==
  /\ passes = 2
  /\ ipc = "returned"
  /\ visited = 1..Len(dataset)
  /\ Cardinality(DatasetIds) = 2
  /\ inserted[1] = DatasetIds
  /\ inserted[2] = {}

\* C2, as stated: a row whose identifier already has an entry in the store is
\* not downloaded, not uploaded and not inserted.
C2_ExistingRowUntouched ==
  "had_entry" \in ev => ev \cap {"download", "upload", "insert"} = {}

\* C2, amended: when the existence query answers, a row whose identifier has
\* an entry is found and passed over with no download, no upload and no
\* insert; when the query raises, the row is processed, and its insert is
\* rejected.
C2_FoundRowSkipped ==
  /\ ("had_entry" \in ev /\ "check_error" \notin ev) => "existing" \in ev
  /\ "existing" \in ev =>
       ev \cap {"download", "had_file", "upload", "insert", "unlink", "counted"} = {}
  /\ "had_entry" \in ev => "inserted" \notin ev

C2_Witness ==
  /\ "existing" \in ev
  /\ ipc = "loop"
  /\ passes = 2

\* C3: an embedding that is non-null stays non-null (the row stays, with its
\* identifier), and every non-null embedding has exactly 512 elements.
C3_EmbeddingMonotone ==
  /\ [](\A i \in 1..Len(tracks) :
          tracks[i].embedding # None => Len(tracks[i].embedding[1]) = 512)
  /\ [][\A i \in 1..Len(tracks) :
          tracks[i].embedding # None =>
            /\ i <= Len(tracks')
            /\ tracks'[i].id = tracks[i].id
            /\ tracks'[i].embedding # None]_vars

\* An embedded entry whose identifier process_dataset has just tried to insert
\* again.
C3_Witness ==
  /\ ipc = "cleanup"
  /\ wpc["w1"] = "poll"
  /\ "insert_failed" \in ev
  /\ \E i \in 1..Len(tracks) :
       /\ tracks[i].id = track_id
       /\ tracks[i].embedding # None
       /\ Len(tracks[i].embedding[1]) = 512

\* C4: a row is inserted only at the insert step of a row whose upload
\* returned a reference in the same pass; the new entry carries that
\* reference and a null embedding; no entry has a null audio_url.
C4_InsertAfterUpload ==
  /\ [](\A i \in 1..Len(tracks) : tracks[i].audio_url # None)
  /\ [][tracks' # tracks /\ Len(tracks') # Len(tracks) =>
          /\ ipc = "insert"
          /\ "uploaded" \in ev
          /\ final_url # None
          /\ tracks' = Append(tracks, [id |-> track_id, audio_url |-> final_url,
                                       embedding |-> None])]_vars

C4_Witness ==
  /\ "inserted" \in ev
  /\ Len(tracks) = 2
  /\ tracks[2].audio_url = final_url

\* C5, as stated: a row whose download, upload or insert failed has no entry
\* inserted for it, the pass does not raise, and once the pass has returned
\* every later row has been visited.
C5_FailureDoesNotAbort ==
  \A i \in failed :
    /\ ipc # "raised"
    /\ i = index => "inserted" \notin ev
    /\ ipc = "returned" => \A k \in (i + 1)..Len(dataset) : k \in visited

\* C6, as stated: after process_dataset has returned, no <id>.mp3 is left for
\* any row it processed (the download, upload and insert steps being
\* configured).
C6_NoScratchFileLeft ==
  (ipc = "returned" /\ HasCreds /\ HasDb) =>
    \A i \in visited : files[dataset[i].TRACK_ID] = None

\* C7, as stated: after a failed upload the row's local file is still there
\* and no entry was inserted for the row.
C7_UploadFailureKeepsFile ==
  ("upload_failed" \in ev /\ ipc = "loop") =>
    /\ files[track_id] # None
    /\ "insert" \notin ev

\* C7, amended: after a failed upload the cleanup step has run, the row's
\* local file is gone, and no entry was inserted for the row.
C7_UploadFailureCleansUp ==
  ("upload_failed" \in ev /\ ipc = "loop") =>
    /\ "unlink" \in ev
    /\ files[track_id] = None
    /\ "insert" \notin ev

C7_Witness ==
  /\ "upload_failed" \in ev
  /\ "downloaded" \in ev
  /\ ipc = "loop"

\* The row of the loop got past the download step.
PastDownload == ev \cap {"downloaded", "had_file"} # {}

\* C8, as stated: with the credentials or the connection string missing, a
\* row is downloaded, nothing is uploaded or inserted, and the local file is
\* kept.
C8_MissingConfigDownloadsOnly ==
  (~HasCreds \/ ~HasDb) =>
    /\ ev \cap {"upload", "insert", "unlink"} = {}
    /\ \A k \in Keys : bucket[k] = None
    /\ \A p \in 1..Len(inserted) : inserted[p] = {}
    /\ "counted" \in ev => PastDownload /\ files[track_id] # None

\* C8, amended: with the credentials missing, a row is downloaded, nothing
\* is uploaded or inserted, and the local file is kept; with only the
\* connection string missing, the row is downloaded and uploaded, nothing
\* is inserted, and the local file is deleted.
C8_MissingConfigDegrades ==
  /\ ~HasCreds =>
       /\ ev \cap {"upload", "insert", "unlink"} = {}
       /\ \A k \in Keys : bucket[k] = None
       /\ \A p \in 1..Len(inserted) : inserted[p] = {}
       /\ "counted" \in ev => PastDownload /\ "kept" \in ev /\ files[track_id] # None
  /\ (HasCreds /\ ~HasDb) =>
       /\ "insert" \notin ev
       /\ \A p \in 1..Len(inserted) : inserted[p] = {}
       /\ "counted" \in ev =>
            PastDownload /\ "upload" \in ev /\ "unlink" \in ev /\ files[track_id] = None

C8_Witness ==
  /\ ~HasCreds
  /\ HasDb
  /\ "downloaded" \in ev
  /\ "counted" \in ev
  /\ ipc = "loop"
  /\ files[track_id] = Some(Resource(AudioUrl(Row)))

\* The requests of a download_file call so far.
Gets == {i \in 1..Len(dlLog) : dlLog[i].op = "get"}

\* C9: a call whose every try fails returns failure after exactly retries
\* requests, and between request k and request k+1 lies one sleep of 2*k
\* seconds.
C9_RetryExhaustion ==
  /\ (ipc = "dl_return" /\ ~success) =>
       /\ Cardinality(Gets) = retries
       /\ \A i \in Gets : i < Len(dlLog) /\ dlLog[i + 1].op = "sleep"
  /\ \A k \in 1..Cardinality(Gets) :
       /\ dlLog[2 * k - 1].op = "get"
       /\ k < Cardinality(Gets) =>
            /\ dlLog[2 * k].op = "sleep"
            /\ dlLog[2 * k].n = 2 * k

C9_Witness ==
  /\ ipc = "dl_return"
  /\ ~success
  /\ retries = 3
  /\ Cardinality(Gets) = 3
  /\ dlLog[2].n = 2
  /\ dlLog[4].n = 4

\* C10: a call returns success with the first request that does not raise,
\* which is its last request, and the local file then holds the remote
\* resource whatever earlier tries wrote.
C10_SuccessIsComplete ==
  (ipc = "dl_return" /\ success) =>
    /\ files[local_path] = Some(Resource(url))
    /\ Len(dlLog) \in Gets
    /\ \A i \in Gets \ {Len(dlLog)} : dlLog[i + 1].op = "sleep"
    /\ ~ENABLED DownloadAttempt

C10_Witness ==
  /\ ipc = "dl_return"
  /\ success
  /\ partial
  /\ Len(dlLog) = 5

C17_ReferenceRoundTrip ==
  (rpc \in {"presigned", "raw", "no_url"} /\ public_url # None) =>
    signed_key = Some(s3_key)

\* C12, as stated: with a limit, a row is under way only while fewer than
\* limit rows have been counted, and a row that was passed over as present, or
\* for which the download, the upload or the insert failed, is not counted.
C12_LimitCountsSuccesses ==
  /\ (limit # 0 /\ ipc \notin {"idle", "loop", "returned", "raised"}) =>
       processed_count < limit
  /\ (limit # 0 /\ "counted" \in ev) =>
       /\ index \notin failed
       /\ ev \cap {"existing", "download_failed", "upload_failed", "insert_failed"} = {}

\* C13: a poll selects an entry whose embedding is null, and an entry an
\* iteration has committed a vector for is never the selection of a later
\* poll.
C13_PollSelectsPending ==
  [][\A w \in Workers :
       (wpc[w] = "poll" /\ wpc'[w] = "download") =>
         /\ wtrack'[w] \in 1..Len(tracks)
         /\ tracks[wtrack'[w]].embedding = None
         /\ tracks'[wtrack'[w]].embedding = None]_vars

\* A vector has been committed for one entry and a later poll has selected
\* the other one.
C13_Witness ==
  /\ wpc["w1"] = "download"
  /\ Len(tracks) = 2
  /\ tracks[1].embedding # None
  /\ wtrack["w1"] = 2

\* C14, as stated: after an iteration in which the download, the embedding
\* or the commit failed, or an error reached the loop boundary, the entry is
\* still pending and the worker has slept before it polls again.
C14_FailureCoolsDown ==
  \A w \in Workers :
    (wpc[w] = "poll" /\
     wlast[w].outcome \in {"download_failed", "embed_failed", "commit_failed", "error"}) =>
      /\ wtrack[w] # 0 => tracks[wtrack[w]].embedding = None
      /\ wlast[w].slept > 0

\* C15, as stated: a worker that has entered its loop never leaves it.
C15_LoopNeverEnds ==
  \A w \in Workers : wpc[w] \in {"off", "start", "exited", "poll", "download", "embed", "commit"}

\* C16, as stated: the worker ends at startup only when the model cannot be
\* loaded.
C16_OnlyModelLoadExits ==
  \A w \in Workers : wpc[w] = "exited" => wlast[w].outcome = "model_load_failed"

\* C16, amended: the worker ends at startup when the model cannot be loaded
\* or when there is no database session, which is when DATABASE_URL is not
\* set; without DATABASE_URL it never enters its loop.
C16_StartupExits ==
  \A w \in Workers :
    /\ wpc[w] = "exited" => wlast[w].outcome \in {"model_load_failed", "no_session"}
    /\ wlast[w].outcome = "no_session" => wpc[w] = "exited" /\ ~HasDb
    /\ ~HasDb => wpc[w] \in {"off", "start", "exited"}

C16_Witness ==
  /\ wpc["w1"] = "exited"
  /\ wlast["w1"].outcome = "no_session"
  /\ ~HasDb

\* C19, as stated: when an iteration has ended, the temporary file
\* download_audio created in it is gone.
C19_NoTempFileLeft ==
  \A w \in Workers : wpc[w] \in {"poll", "crashed"} => ~wtmp[w]

\* C18, as stated: whatever process_dataset has put in the store under a
\* row's key is the complete remote resource of that row.
C18_UploadsCompleteFiles ==
  \A i \in 1..Len(dataset) :
    (AudioUrl(dataset[i]) # <<>> /\ bucket[S3Key(dataset[i].TRACK_ID)] # None) =>
      bucket[S3Key(dataset[i].TRACK_ID)] = Some(Resource(AudioUrl(dataset[i])))

\* The worker has stopped.
Stopped(w) == wpc[w] \in {"exited", "crashed"}

\* A step of the iteration on entry i has failed, or a statement outside the
\* processing of an entry has.
FailedOn(w, i) ==
  /\ wlast[w].outcome \in {"download_failed", "embed_failed", "commit_failed", "error"}
  /\ wtrack[w] \in {0, i}

\* C20, as stated: with one worker that keeps running, an entry of the
\* catalog is eventually persisted unless a step fails for that very entry
\* (or a poll raises), whatever happens to the other entries.
C20_NoStarvation ==
  \A i \in 1..MaxRows :
    <>(\/ i > Len(tracks)
       \/ tracks[i].embedding # None
       \/ Stopped("w1")
       \/ FailedOn("w1", i))

\* C21: the poll neither writes to the catalog nor takes the entry it
\* selects out of what a poll can select: the entry is as selectable after the
\* poll as before, for this worker and for the other.
C21_PollClaimsNothing ==
  [][\A w \in Workers :
       (wpc[w] = "poll" /\ wpc'[w] = "download") =>
         /\ tracks' = tracks
         /\ wtrack'[w] \in Pending(tracks)
         /\ wtrack'[w] \in Pending(tracks)']_vars

\* Both workers selected the same entry while it was pending, and each has
\* committed a vector for it: the entry's embedding was written twice.
C21_Witness ==
  /\ wtrack["w1"] # 0
  /\ wtrack["w1"] = wtrack["w2"]
  /\ wlast["w1"].outcome = "persisted"
  /\ wlast["w2"].outcome = "persisted"
  /\ tracks[wtrack["w1"]].embedding # None

=============================================================================
